---------------------------- MODULE Spec2Model ----------------------------
(***************************************************************************)
(* Model of scripts/find_function_dupes.py: the duplicate-function         *)
(* detector (FUNC_RE, extract_functions, _hash, _similar, main).           *)
(*                                                                         *)
(* Text is a sequence of one-character strings.  Positions are Python's:   *)
(* 0-based, slices half-open.                                              *)
(***************************************************************************)
EXTENDS Integers, Sequences, FiniteSets, TLC

(***************************************************************************)
(* Characters and slices                                                   *)
(***************************************************************************)

\* The backslash character.
BS == "\\"

\* len(source)
StrLen(s) == Len(s)

\* source[i] where 0 <= i < len(source); past the end the regex engine sees
\* no character, written "" here.
CharAt(s, i) == IF 0 <= i /\ i < Len(s) THEN s[i + 1] ELSE ""

\* source[a:b]
Slice(s, a, b) == SubSeq(s, a + 1, b)

\* The characters str.strip() removes (the ones of the model's alphabet).
IsSpace(c) == c \in {" ", "\t", "\n"}

MaxOf(S) == CHOOSE x \in S : \A y \in S : y <= x

MinOf(S) == CHOOSE x \in S : \A y \in S : x <= y

(***************************************************************************)
(* FUNC_RE = re.compile(r"(?:pub\\s+)?fn\\s+(\\w+)\\s*\\([^)]*\\)\\s*\\{") *)
(*                                                                         *)
(* The pattern is a raw string, so each "\\" is the regex for ONE literal  *)
(* backslash and the letter after it is an ordinary letter:                *)
(*   (?:pub\\s+)?   optional: p u b, a backslash, one or more s            *)
(*   fn\\s+         f n, a backslash, one or more s                        *)
(*   (\\w+)         group 1: a backslash, one or more w                    *)
(*   \\s*           a backslash, zero or more s                            *)
(*   \\             a backslash                                            *)
(*   ([^)]*\\)      group 2: any characters but ")", then a backslash      *)
(*   \\s*           a backslash, zero or more s                            *)
(*   \\{            a backslash, an opening brace                          *)
(***************************************************************************)

\* The literal lit stands in s at position p.
LitAt(s, p, lit) == \A k \in 1..Len(lit) : CharAt(s, p + k - 1) = lit[k]

\* End of the maximal run of character c that starts at p (p when there is
\* none): what a greedy c* or c+ consumes.  The element that follows each of
\* the pattern's runs is a backslash, which c never is, so giving characters
\* back can never help and the greedy end is the only one.
RunEnd(s, c, p) ==
    CHOOSE e \in p..(IF Len(s) > p THEN Len(s) ELSE p) :
        /\ \A k \in p..(e - 1) : CharAt(s, k) = c
        /\ CharAt(s, e) # c

\* The optional group (?:pub\\s+)? at p: the position after it, or -1.
PubEnd(s, p) ==
    IF LitAt(s, p, <<"p", "u", "b", BS>>) /\ RunEnd(s, "s", p + 4) > p + 4
    THEN RunEnd(s, "s", p + 4)
    ELSE -1

\* The pattern's tail \\s*\\{ at u: the position after the brace, or -1.
TailEnd(s, u) ==
    IF CharAt(s, u) = BS
       /\ CharAt(s, RunEnd(s, "s", u + 1)) = BS
       /\ CharAt(s, RunEnd(s, "s", u + 1) + 1) = "{"
    THEN RunEnd(s, "s", u + 1) + 2
    ELSE -1

\* Group 2, ([^)]*\\), opened at g and followed by the tail: the positions k
\* of the group's closing backslash from which the rest of the pattern
\* matches.
Group2Ends(s, g) ==
    { k \in g..(Len(s) - 1) :
        /\ \A t \in g..(k - 1) : CharAt(s, t) # ")"
        /\ CharAt(s, k) = BS
        /\ TailEnd(s, k + 1) # -1 }

NoMatch == [start |-> -1, end |-> -1, name |-> <<>>]

\* fn\\s+(\\w+)\\s*\\([^)]*\\)\\s*\\{ at q, for a match that starts at
\* start.  [^)]* is greedy: the engine keeps the LAST position of its
\* closing backslash that lets the tail match.
CoreAt(s, start, q) ==
    IF ~ (LitAt(s, q, <<"f", "n", BS>>) /\ RunEnd(s, "s", q + 3) > q + 3)
    THEN NoMatch
    ELSE
    LET g1 == RunEnd(s, "s", q + 3)
        e1 == RunEnd(s, "w", g1 + 1)
        r3 == RunEnd(s, "s", e1 + 1)
    IN  IF CharAt(s, g1) = BS /\ e1 > g1 + 1
           /\ CharAt(s, e1) = BS
           /\ CharAt(s, r3) = BS
           /\ Group2Ends(s, r3 + 1) # {}
        THEN [start |-> start,
              end   |-> TailEnd(s, MaxOf(Group2Ends(s, r3 + 1)) + 1),
              name  |-> Slice(s, g1, e1)]
        ELSE NoMatch

\* FUNC_RE.match at position p: the optional group is tried first, and the
\* pattern without it only when that fails.
MatchAt(s, p) ==
    LET withPub == IF PubEnd(s, p) # -1 THEN CoreAt(s, p, PubEnd(s, p))
                   ELSE NoMatch
    IN  IF withPub # NoMatch THEN withPub ELSE CoreAt(s, p, p)

\* FUNC_RE.search from pos: the leftmost match, or NoMatch.
SearchFrom(s, pos) ==
    LET starts == { p \in pos..(Len(s) - 1) : MatchAt(s, p) # NoMatch }
    IN  IF starts = {} THEN NoMatch ELSE MatchAt(s, MinOf(starts))

\* FUNC_RE.finditer(source): the non-overlapping matches, left to right;
\* the search resumes at the end of the previous match.
RECURSIVE FindIterFrom(_, _)
FindIterFrom(s, pos) ==
    LET mt == SearchFrom(s, pos)
    IN  IF mt = NoMatch THEN <<>> ELSE <<mt>> \o FindIterFrom(s, mt.end)

FindIter(s) == FindIterFrom(s, 0)

(***************************************************************************)
(* extract_functions                                                       *)
(***************************************************************************)

\* DepthStep without the "{" branch: nesting is not counted.
DepthStepNoNesting(s, i, depth) ==
    IF CharAt(s, i) = "}" THEN depth - 1 ELSE depth

\* One iteration of the while loop: the depth after reading source[i].
DepthStep(s, i, depth) ==
    IF CharAt(s, i) = "{" THEN depth + 1
    ELSE IF CharAt(s, i) = "}" THEN depth - 1
    ELSE depth

\* The while loop, run from (i, depth) to its exit: the final i.
RECURSIVE ScanEnd(_, _, _)
ScanEnd(s, i, depth) ==
    IF i < StrLen(s) /\ depth # 0
    THEN ScanEnd(s, i + 1, DepthStep(s, i, depth))
    ELSE i

\* re.sub(r"\\s+", " ", body): the pattern is a literal backslash followed by
\* one or more s; each such run, left to right, becomes one space.
RECURSIVE ReSubFrom(_, _)
ReSubFrom(s, p) ==
    IF p >= Len(s) THEN <<>>
    ELSE IF CharAt(s, p) = BS /\ CharAt(s, p + 1) = "s"
         THEN <<" ">> \o ReSubFrom(s, RunEnd(s, "s", p + 1))
         ELSE <<CharAt(s, p)>> \o ReSubFrom(s, p + 1)

ReSub(s) == ReSubFrom(s, 0)

\* str.strip()
Strip(s) ==
    LET keep == { k \in 1..Len(s) : ~ IsSpace(s[k]) }
    IN  IF keep = {} THEN <<>> ELSE SubSeq(s, MinOf(keep), MaxOf(keep))

\* Normalize with the two calls in the other order: strip(), then re.sub.
NormalizeStripFirst(body) == ReSub(Strip(body))

\* body_clean = re.sub(r"\\s+", " ", body).strip()
Normalize(body) == Strip(ReSub(body))

\* body = source[start:i]
BodyOf(s, m) == Slice(s, m.start, ScanEnd(s, m.end, 1))

\* extract_functions(source): the (name, body_clean) pairs, in match order.
ExtractFunctions(s) ==
    LET ms == FindIter(s)
    IN  [k \in 1..Len(ms) |->
            [name |-> ms[k].name, body |-> Normalize(BodyOf(s, ms[k]))]]

(***************************************************************************)
(* _hash and _similar: the pure-python pair (the ssdeep pair belongs to an   *)
(* optional third-party library and is chosen only when it is installed)   *)
(***************************************************************************)

\* _hash(s): "Return the input itself"
Hash(s) == s

\* Length of the common run of a from i and b from j, inside a[..ahi) and
\* b[..bhi).
RECURSIVE CommonLen(_, _, _, _, _, _)
CommonLen(a, b, i, j, ahi, bhi) ==
    IF i < ahi /\ j < bhi /\ CharAt(a, i) = CharAt(b, j)
    THEN 1 + CommonLen(a, b, i + 1, j + 1, ahi, bhi)
    ELSE 0

\* SequenceMatcher.find_longest_match(alo, ahi, blo, bhi) without junk: the
\* longest block a[i:i+k] == b[j:j+k]; of the longest ones the one that
\* starts earliest in a, and of those the one that starts earliest in b;
\* (alo, blo, 0) when nothing matches.
FindLongestMatch(a, b, alo, ahi, blo, bhi) ==
    LET blocks == { <<p[1], p[2], CommonLen(a, b, p[1], p[2], ahi, bhi)>> :
                        p \in (alo..(ahi - 1)) \X (blo..(bhi - 1)) }
        best == IF blocks = {} THEN 0 ELSE MaxOf({ x[3] : x \in blocks })
        longest == { x \in blocks : x[3] = best }
        besti == MinOf({ x[1] : x \in longest })
        bestj == MinOf({ x[2] : x \in { y \in longest : y[1] = besti } })
    IN  IF best = 0 THEN [i |-> alo, j |-> blo, k |-> 0]
        ELSE [i |-> besti, j |-> bestj, k |-> best]

\* SequenceMatcher.get_matching_blocks, summed: the longest block, then the
\* same to its left (when both sides have something left of it) and to its
\* right.
RECURSIVE MatchTotal(_, _, _, _, _, _)
MatchTotal(a, b, alo, ahi, blo, bhi) ==
    LET blk == FindLongestMatch(a, b, alo, ahi, blo, bhi)
    IN  IF blk.k = 0 THEN 0
        ELSE blk.k
             + (IF alo < blk.i /\ blo < blk.j
                THEN MatchTotal(a, b, alo, blk.i, blo, blk.j) ELSE 0)
             + (IF blk.i + blk.k < ahi /\ blk.j + blk.k < bhi
                THEN MatchTotal(a, b, blk.i + blk.k, ahi, blk.j + blk.k, bhi) ELSE 0)

\* _similar(a, b) = int(SequenceMatcher(None, a, b).ratio() * 100), with
\* ratio() = 2.0 * matches / (len(a) + len(b)), and 1.0 for two empty
\* strings.  For len(a) + len(b) <= 80 the float product truncates to the
\* exact floor of 200 * matches / length.
Similar(a, b) ==
    IF Len(a) + Len(b) = 0 THEN 100
    ELSE (200 * MatchTotal(a, b, 0, Len(a), 0, Len(b))) \div (Len(a) + Len(b))

(***************************************************************************)
(* Dictionaries keep insertion order; assigning to a key that is present   *)
(* replaces its value where it stands.                                     *)
(***************************************************************************)

KeyIndex(d, key) ==
    LET at == { k \in 1..Len(d) : d[k].key = key }
    IN  IF at = {} THEN 0 ELSE MinOf(at)

\* DictSet as d.setdefault(key, val) would have it: a key that is present
\* keeps its first value.
DictSetKeepFirst(d, key, val) ==
    IF KeyIndex(d, key) = 0
    THEN Append(d, [key |-> key, val |-> val])
    ELSE d

\* d[key] = val
DictSet(d, key, val) ==
    IF KeyIndex(d, key) = 0
    THEN Append(d, [key |-> key, val |-> val])
    ELSE [d EXCEPT ![KeyIndex(d, key)].val = val]

\* d.setdefault(key, []).append(x)
DictAppend(d, key, x) ==
    IF KeyIndex(d, key) = 0
    THEN Append(d, [key |-> key, val |-> <<x>>])
    ELSE [d EXCEPT ![KeyIndex(d, key)].val = Append(@, x)]

(***************************************************************************)
(* main: helpers                                                           *)
(***************************************************************************)

\* if score > 90
Threshold == 90

\* f"{file1}::{name1}"
HeadKey(file, fname) == file \o <<":", ":">> \o fname

\* for fn_name, body in extract_functions(code):
\*     tokens[(str(zig_file), fn_name)] = _hash(body)
RECURSIVE AddFunctions(_, _, _, _)
AddFunctions(toks, file, fns, k) ==
    IF k > Len(fns) THEN toks
    ELSE AddFunctions(DictSet(toks, <<file, fns[k].name>>, Hash(fns[k].body)),
                      file, fns, k + 1)

\* InnerStart as range(i, total) would have it: each entry is also compared
\* with itself.
InnerStartAtI(ii) == ii

\* range(i + 1, total): the first j of the inner loop.
InnerStart(ii) == ii + 1

\* ComparePair with "score >= 90" for the test.
ComparePairAtLeast(cl, its, ii, jj) ==
    IF Similar(its[ii + 1].val, its[jj + 1].val) >= Threshold
    THEN DictAppend(cl, HeadKey(its[ii + 1].key[1], its[ii + 1].key[2]),
                    its[jj + 1].key)
    ELSE cl

\* The body of the inner loop for the pair (items[i], items[j]).
ComparePair(cl, its, ii, jj) ==
    IF Similar(its[ii + 1].val, its[jj + 1].val) > Threshold
    THEN DictAppend(cl, HeadKey(its[ii + 1].key[1], its[ii + 1].key[2]),
                    its[jj + 1].key)
    ELSE cl

(***************************************************************************)
(* Inputs                                                                  *)
(***************************************************************************)

\* Number of files the root holds at most.
MaxFiles == 2

FileNames == <<"x", "y", "z", "u">>

\* A declaration FUNC_RE matches, named \w, and one named \ww.
DeclW == <<"f", "n", BS, "s", BS, "w", BS, BS, BS, BS, BS, "{">>

DeclWW == <<"f", "n", BS, "s", BS, "w", "w", BS, BS, BS, BS, BS, "{">>

DeclWWW == <<"f", "n", BS, "s", BS, "w", "w", "w", BS, BS, BS, BS, BS, "{">>

\* A Zig declaration as the module docstring describes it: fn a() {
DeclZig == <<"f", "n", " ", "a", "(", ")", " ", "{">>

A8 == <<"a", "a", "a", "a", "a", "a", "a", "a">>

A6B2 == <<"a", "a", "a", "a", "a", "a", "b", "b">>

\* The texts a file may hold.  A ")" between two declarations keeps the
\* pattern's [^)]* from running from the first into the second.
FileTexts ==
    { <<>>,
      DeclW \o <<"}">>,
      DeclW \o <<"x", "}">>,
      DeclW \o A8 \o <<"}", ")">> \o DeclWW \o A8 \o <<"}">>,
      DeclW \o A6B2 \o <<"}", ")">> \o DeclWWW \o A8 \o <<"}">>,
      DeclW \o <<"}", ")">> \o DeclWW \o <<"}", ")">>
            \o DeclW \o <<"x", "x", "x", "x", "}">>,
      DeclW \o <<"{", "}">>,
      DeclZig \o <<" ", "x", " ", "}">>,
      DeclZig \o <<" ", " ", "x", "\n", "}">> }

\* What the file system holds for one file: readable text, bytes that are
\* not UTF-8, a file whose read fails in the operating system, or a path
\* under zig-cache / zig-out.
FileStates ==
    [kind : {"text"}, text : FileTexts]
        \cup [kind : {"undecodable", "unreadable", "artefact"}, text : {<<>>}]

FileLists == UNION { [1..n -> FileStates] : n \in 0..MaxFiles }

\* The default root, "src", and a directory named on the command line.
SrcDir == <<"s", "r", "c">>

LibDir == <<"l", "i", "b">>

Dirs == {SrcDir, LibDir}

\* argv after "argv = argv or sys.argv[1:]": no argument, or one.
ArgLists == { <<>>, <<LibDir>> }

\* root = pathlib.Path(argv[0]) if argv else pathlib.Path("src")
RootOf(args) == IF args # <<>> THEN args[1] ELSE SrcDir

\* What rglob can yield: nothing under a root that does not exist.
FilesUnder(dirs, args) ==
    IF (IF args # <<>> THEN args[1] ELSE SrcDir) \in dirs
    THEN FileLists
    ELSE { <<>> }

(***************************************************************************)
(* State                                                                   *)
(***************************************************************************)

VARIABLES
    \* main
    pc,         \* where main stands
    argv,       \* the positional arguments (argv or sys.argv[1:])
    existing,   \* the directories that exist
    root,       \* root, once main has set it
    rootExists, \* root.exists(), once main has asked
    files,      \* what root.rglob("*.zig") yields, in its order
    fileIdx,    \* the next of them (1-based)
    reads,      \* the files read_text was called on, in order
    tokens,     \* tokens: (file, name) -> fingerprint
    items,      \* list(tokens.items())
    total,      \* len(items)
    i,          \* outer loop index
    j,          \* inner loop index
    compared,   \* the pairs (i, j) _similar was called on, in order
    clusters,   \* clusters: "<file>::<name>" -> [(file, name), ...]
    report,     \* function_dupes.json on disk
    writes,     \* calls of out_path.write_text
    fault,      \* the operation whose exception ended the run
    exitCode,   \* the process's exit status, -1 while it runs
    stderr,     \* whether the error line was printed
    stdout,     \* the group count of the summary line, -1 before it
    \* extract_functions, run on its own
    source, epc, searchPos, m, depth, xi, body, functions,
    \* the normalisation step, run on its own
    nbody, npc, nout, nout2,
    \* _hash and _similar, run on their own
    sa, sb, spc, siga, sigb, scoreAB, scoreBA, scoreAA

mainVars == <<pc, argv, existing, root, rootExists, files, fileIdx, reads, tokens, items, total, i, j,
              compared, clusters, report, writes, fault, exitCode, stderr, stdout>>

extractVars == <<source, epc, searchPos, m, depth, xi, body, functions>>

normVars == <<nbody, npc, nout, nout2>>

simVars == <<sa, sb, spc, siga, sigb, scoreAB, scoreBA, scoreAA>>

vars == <<mainVars, extractVars, normVars, simVars>>

\* str(zig_file): the root, a separator and the file's name.
PathOf(k) == root \o <<"/", FileNames[k], ".", "z", "i", "g">>

NoReport == [state |-> "absent", data |-> <<>>]

MainIdle ==
    /\ pc = "idle" /\ argv = <<>> /\ existing = {} /\ root = <<>>
    /\ rootExists = FALSE /\ files = <<>> /\ fileIdx = 1
    /\ reads = <<>> /\ tokens = <<>> /\ items = <<>> /\ total = 0
    /\ i = 0 /\ j = 0 /\ compared = <<>> /\ clusters = <<>>
    /\ report = NoReport /\ writes = 0 /\ fault = "none"
    /\ exitCode = -1 /\ stderr = FALSE /\ stdout = -1

ExtractIdle ==
    /\ source = <<>> /\ epc = "idle" /\ searchPos = 0 /\ m = NoMatch
    /\ depth = 0 /\ xi = 0 /\ body = <<>> /\ functions = <<>>

NormIdle == nbody = <<>> /\ npc = "idle" /\ nout = <<>> /\ nout2 = <<>>

SimIdle ==
    /\ sa = <<>> /\ sb = <<>> /\ spc = "idle" /\ siga = <<>> /\ sigb = <<>>
    /\ scoreAB = -1 /\ scoreBA = -1 /\ scoreAA = -1

(***************************************************************************)
(* main                                                                    *)
(***************************************************************************)

\* A run of main: the root exists or not and holds some files; nothing has
\* been read, compared or written.
Init ==
    /\ pc = "start"
    /\ argv \in ArgLists
    /\ existing \in SUBSET Dirs
    /\ root = <<>>
    /\ rootExists = FALSE
    /\ files \in FilesUnder(existing, argv)
    /\ fileIdx = 1 /\ reads = <<>> /\ tokens = <<>> /\ items = <<>>
    /\ total = 0 /\ i = 0 /\ j = 0 /\ compared = <<>> /\ clusters = <<>>
    /\ report = NoReport /\ writes = 0 /\ fault = "none"
    /\ exitCode = -1 /\ stderr = FALSE /\ stdout = -1
    /\ ExtractIdle /\ NormIdle /\ SimIdle

Running == pc \in {"start", "scan", "outer", "inner", "write", "opened", "print"}

\* CheckRoot without sys.exit(1): the error is printed and main goes on.
CheckRootNoExit ==
    /\ pc = "start"
    /\ root' = RootOf(argv)
    /\ rootExists' = (RootOf(argv) \in existing)
    /\ pc' = "scan"
    /\ stderr' = ~ rootExists'
    /\ UNCHANGED <<argv, existing, files, fileIdx, reads, tokens, items,
                   total, i, j, compared, clusters, report, writes, fault,
                   exitCode, stdout>>
    /\ UNCHANGED <<extractVars, normVars, simVars>>

\* root = pathlib.Path(argv[0]) if argv else pathlib.Path("src")
\* if not root.exists(): print(..., file=sys.stderr); sys.exit(1)
CheckRoot ==
    /\ pc = "start"
    /\ root' = RootOf(argv)
    /\ rootExists' = (RootOf(argv) \in existing)
    /\ IF rootExists'
       THEN /\ pc' = "scan"
            /\ UNCHANGED <<stderr, exitCode>>
       ELSE /\ pc' = "exit"
            /\ stderr' = TRUE
            /\ exitCode' = 1
    /\ UNCHANGED <<argv, existing, files, fileIdx, reads, tokens, items,
                   total, i, j, compared, clusters, report, writes, fault,
                   stdout>>
    /\ UNCHANGED <<extractVars, normVars, simVars>>

\* iter_zig_files: a path with a zig-cache or zig-out part is not yielded.
SkipArtefact ==
    /\ pc = "scan"
    /\ fileIdx <= Len(files)
    /\ files[fileIdx].kind = "artefact"
    /\ fileIdx' = fileIdx + 1
    /\ UNCHANGED <<pc, argv, existing, root, rootExists, files, reads, tokens,
                   items, total, i, j, compared, clusters, report, writes,
                   fault, exitCode, stderr, stdout>>
    /\ UNCHANGED <<extractVars, normVars, simVars>>

\* ReadFile without the except clause: a file that is not UTF-8 ends the run
\* like any other failed read.
ReadFileNoExcept ==
    /\ pc = "scan"
    /\ fileIdx <= Len(files)
    /\ files[fileIdx].kind # "artefact"
    /\ reads' = Append(reads, fileIdx)
    /\ IF files[fileIdx].kind = "text"
       THEN /\ tokens' = AddFunctions(tokens, PathOf(fileIdx),
                                      ExtractFunctions(files[fileIdx].text), 1)
            /\ fileIdx' = fileIdx + 1
            /\ UNCHANGED <<pc, fault, exitCode>>
       ELSE /\ pc' = "crashed"
            /\ fault' = "read"
            /\ exitCode' = 1
            /\ UNCHANGED <<fileIdx, tokens>>
    /\ UNCHANGED <<argv, existing, root, rootExists, files, items, total, i,
                   j, compared, clusters, report, writes, stderr, stdout>>
    /\ UNCHANGED <<extractVars, normVars, simVars>>

\* One iteration of "for zig_file in iter_zig_files(root)": read_text, then
\* either the except clause (UnicodeDecodeError only), or the inner for over
\* extract_functions(code); any other exception of read_text leaves main.
ReadFile ==
    /\ pc = "scan"
    /\ fileIdx <= Len(files)
    /\ files[fileIdx].kind # "artefact"
    /\ reads' = Append(reads, fileIdx)
    /\ CASE files[fileIdx].kind = "text" ->
              /\ tokens' = AddFunctions(tokens, PathOf(fileIdx),
                                        ExtractFunctions(files[fileIdx].text), 1)
              /\ fileIdx' = fileIdx + 1
              /\ UNCHANGED <<pc, fault, exitCode>>
         [] files[fileIdx].kind = "undecodable" ->
              /\ fileIdx' = fileIdx + 1
              /\ UNCHANGED <<pc, tokens, fault, exitCode>>
         [] files[fileIdx].kind = "unreadable" ->
              /\ pc' = "crashed"
              /\ fault' = "read"
              /\ exitCode' = 1
              /\ UNCHANGED <<fileIdx, tokens>>
    /\ UNCHANGED <<argv, existing, root, rootExists, files, items, total, i,
                   j, compared, clusters, report, writes, stderr, stdout>>
    /\ UNCHANGED <<extractVars, normVars, simVars>>

\* The file loop is exhausted: clusters = {}; items = list(tokens.items());
\* total = len(items); the outer loop starts at i = 0.
EndScan ==
    /\ pc = "scan"
    /\ fileIdx > Len(files)
    /\ clusters' = <<>>
    /\ items' = tokens
    /\ total' = Len(tokens)
    /\ i' = 0
    /\ pc' = "outer"
    /\ UNCHANGED <<argv, existing, root, rootExists, files, fileIdx, reads,
                   tokens, j, compared, report, writes, fault, exitCode,
                   stderr, stdout>>
    /\ UNCHANGED <<extractVars, normVars, simVars>>

\* for i in range(total): the next i, if any, enters the inner loop at
\* j = i + 1; otherwise the scan is over.
BeginOuter ==
    /\ pc = "outer"
    /\ IF i < total
       THEN /\ j' = InnerStart(i)
            /\ pc' = "inner"
       ELSE /\ pc' = "write"
            /\ UNCHANGED j
    /\ UNCHANGED <<argv, existing, root, rootExists, files, fileIdx, reads,
                   tokens, items, total, i, compared, clusters, report,
                   writes, fault, exitCode, stderr, stdout>>
    /\ UNCHANGED <<extractVars, normVars, simVars>>

\* One iteration of "for j in range(i + 1, total)".
Compare ==
    /\ pc = "inner"
    /\ j < total
    /\ compared' = Append(compared, <<i, j>>)
    /\ clusters' = ComparePair(clusters, items, i, j)
    /\ j' = j + 1
    /\ UNCHANGED <<pc, argv, existing, root, rootExists, files, fileIdx,
                   reads, tokens, items, total, i, report, writes, fault,
                   exitCode, stderr, stdout>>
    /\ UNCHANGED <<extractVars, normVars, simVars>>

\* EndInner leaving the outer loop after its first row (a break): the
\* report is written with the later rows never compared.
EndInnerBreak ==
    /\ pc = "inner"
    /\ j >= total
    /\ i' = i + 1
    /\ pc' = "write"
    /\ UNCHANGED <<argv, existing, root, rootExists, files, fileIdx, reads,
                   tokens, items, total, j, compared, clusters, report,
                   writes, fault, exitCode, stderr, stdout>>
    /\ UNCHANGED <<extractVars, normVars, simVars>>

\* The inner loop is exhausted: the outer loop goes on with i + 1.
EndInner ==
    /\ pc = "inner"
    /\ j >= total
    /\ i' = i + 1
    /\ pc' = "outer"
    /\ UNCHANGED <<argv, existing, root, rootExists, files, fileIdx, reads,
                   tokens, items, total, j, compared, clusters, report,
                   writes, fault, exitCode, stderr, stdout>>
    /\ UNCHANGED <<extractVars, normVars, simVars>>

\* out_path.write_text(...), first half: the file is opened for writing,
\* which creates or empties it; the open may fail and then changes nothing.
OpenReport ==
    /\ pc = "write"
    /\ writes' = writes + 1
    /\ \E ok \in BOOLEAN :
         IF ok
         THEN /\ report' = [state |-> "truncated", data |-> <<>>]
              /\ pc' = "opened"
              /\ UNCHANGED <<fault, exitCode>>
         ELSE /\ pc' = "crashed"
              /\ fault' = "open"
              /\ exitCode' = 1
              /\ UNCHANGED report
    /\ UNCHANGED <<argv, existing, root, rootExists, files, fileIdx, reads,
                   tokens, items, total, i, j, compared, clusters, stderr,
                   stdout>>
    /\ UNCHANGED <<extractVars, normVars, simVars>>

\* out_path.write_text(...), second half: json.dumps(clusters, indent=2) is
\* written (keys and lists in their order) and the file closed; a write that
\* fails leaves the opened file short of the document.
WriteData ==
    /\ pc = "opened"
    /\ \E ok \in BOOLEAN :
         IF ok
         THEN /\ report' = [state |-> "complete", data |-> clusters]
              /\ pc' = "print"
              /\ UNCHANGED <<fault, exitCode>>
         ELSE /\ pc' = "crashed"
              /\ fault' = "write"
              /\ exitCode' = 1
              /\ UNCHANGED report
    /\ UNCHANGED <<argv, existing, root, rootExists, files, fileIdx, reads,
                   tokens, items, total, i, j, compared, clusters, writes,
                   stderr, stdout>>
    /\ UNCHANGED <<extractVars, normVars, simVars>>

\* print(f"... wrote {out_path} with {len(clusters)} duplicate groups"); main
\* returns and the process exits 0.
PrintSummary ==
    /\ pc = "print"
    /\ stdout' = Len(clusters)
    /\ exitCode' = 0
    /\ pc' = "done"
    /\ UNCHANGED <<argv, existing, root, rootExists, files, fileIdx, reads,
                   tokens, items, total, i, j, compared, clusters, report,
                   writes, fault, stderr>>
    /\ UNCHANGED <<extractVars, normVars, simVars>>

\* The run is interrupted from outside: main has no handler, so whatever is
\* on disk stays as it is.
Interrupt ==
    /\ Running
    /\ pc' = "interrupted"
    /\ fault' = "interrupt"
    /\ exitCode' = 130
    /\ UNCHANGED <<argv, existing, root, rootExists, files, fileIdx, reads,
                   tokens, items, total, i, j, compared, clusters, report,
                   writes, stderr, stdout>>
    /\ UNCHANGED <<extractVars, normVars, simVars>>

Next ==
    \/ CheckRoot
    \/ SkipArtefact
    \/ ReadFile
    \/ EndScan
    \/ BeginOuter
    \/ Compare
    \/ EndInner
    \/ OpenReport
    \/ WriteData
    \/ PrintSummary
    \/ Interrupt

Spec == Init /\ [][Next]_vars

(***************************************************************************)
(* extract_functions, run on its own on one source text                    *)
(***************************************************************************)

\* Number of fragments a source text is put together from at most.
MaxFrags == 4

\* pub\s, which the pattern's optional group matches.
PubPrefix == <<"p", "u", "b", BS, "s">>

\* A string literal that holds an opening brace: "{"
StrBrace == <<"\"", "{", "\"">>

Fragments ==
    { DeclW, DeclZig, PubPrefix, StrBrace, <<"{">>, <<"}">>, <<")">>, <<"x">> }

RECURSIVE Concat(_)
Concat(fs) == IF fs = <<>> THEN <<>> ELSE Head(fs) \o Concat(Tail(fs))

ExtractTexts ==
    { Concat(fs) : fs \in UNION { [1..n -> Fragments] : n \in 0..MaxFrags } }

InitExtract ==
    /\ source \in ExtractTexts
    /\ epc = "for"
    /\ searchPos = 0 /\ m = NoMatch /\ depth = 0 /\ xi = 0
    /\ body = <<>> /\ functions = <<>>
    /\ MainIdle /\ NormIdle /\ SimIdle

\* for m in FUNC_RE.finditer(source): the next match, if any, gives name,
\* start, i = m.end() and depth = 1; with no match left the list is
\* returned.
ForNext ==
    /\ epc = "for"
    /\ LET mm == SearchFrom(source, searchPos)
       IN  IF mm = NoMatch
           THEN /\ epc' = "return"
                /\ UNCHANGED <<m, xi, depth, searchPos>>
           ELSE /\ m' = mm
                /\ xi' = mm.end
                /\ depth' = 1
                /\ searchPos' = mm.end
                /\ epc' = "while"
    /\ UNCHANGED <<source, body, functions>>
    /\ UNCHANGED <<mainVars, normVars, simVars>>

\* One iteration of "while i < len(source) and depth".
WhileStep ==
    /\ epc = "while"
    /\ xi < StrLen(source) /\ depth # 0
    /\ depth' = DepthStep(source, xi, depth)
    /\ xi' = xi + 1
    /\ UNCHANGED <<source, epc, searchPos, m, body, functions>>
    /\ UNCHANGED <<mainVars, normVars, simVars>>

\* WhileExit that appends a function only when its braces closed.
WhileExitBalancedOnly ==
    /\ epc = "while"
    /\ ~ (xi < StrLen(source) /\ depth # 0)
    /\ body' = Slice(source, m.start, xi)
    /\ functions' = IF depth = 0
                    THEN Append(functions,
                                [name |-> m.name, body |-> Normalize(body')])
                    ELSE functions
    /\ epc' = "for"
    /\ UNCHANGED <<source, searchPos, m, depth, xi>>
    /\ UNCHANGED <<mainVars, normVars, simVars>>

\* The loop's exit: body = source[start:i], body_clean, functions.append.
WhileExit ==
    /\ epc = "while"
    /\ ~ (xi < StrLen(source) /\ depth # 0)
    /\ body' = Slice(source, m.start, xi)
    /\ functions' = Append(functions,
                           [name |-> m.name, body |-> Normalize(body')])
    /\ epc' = "for"
    /\ UNCHANGED <<source, searchPos, m, depth, xi>>
    /\ UNCHANGED <<mainVars, normVars, simVars>>

NextExtract == ForNext \/ WhileStep \/ WhileExit

SpecExtract == InitExtract /\ [][NextExtract]_vars

(***************************************************************************)
(* The normalisation step, run on its own on one body                      *)
(***************************************************************************)

\* Length of a body at most.
MaxNormLen == 4

NormAlphabet == {" ", "\n", BS, "s", "x"}

NormBodies == UNION { [1..n -> NormAlphabet] : n \in 0..MaxNormLen }

InitNorm ==
    /\ nbody \in NormBodies
    /\ npc = "body"
    /\ nout = <<>> /\ nout2 = <<>>
    /\ MainIdle /\ ExtractIdle /\ SimIdle

\* body_clean = re.sub(r"\\s+", " ", body).strip()
NormOnce ==
    /\ npc = "body"
    /\ nout' = Normalize(nbody)
    /\ npc' = "clean"
    /\ UNCHANGED <<nbody, nout2>>
    /\ UNCHANGED <<mainVars, extractVars, simVars>>

\* The same step applied to its own output.
NormAgain ==
    /\ npc = "clean"
    /\ nout2' = Normalize(nout)
    /\ npc' = "done"
    /\ UNCHANGED <<nbody, nout>>
    /\ UNCHANGED <<mainVars, extractVars, simVars>>

NextNorm == NormOnce \/ NormAgain

SpecNorm == InitNorm /\ [][NextNorm]_vars

(***************************************************************************)
(* _hash and _similar, run on their own on two bodies                      *)
(***************************************************************************)

\* Length of a compared body at most.
MaxSimLen == 3

SimAlphabet == {"a", "b", "c"}

SimBodies == UNION { [1..n -> SimAlphabet] : n \in 0..MaxSimLen }

InitSim ==
    /\ sa \in SimBodies
    /\ sb \in SimBodies
    /\ spc = "bodies"
    /\ siga = <<>> /\ sigb = <<>>
    /\ scoreAB = -1 /\ scoreBA = -1 /\ scoreAA = -1
    /\ MainIdle /\ ExtractIdle /\ NormIdle

\* _hash(a), _hash(b)
HashBoth ==
    /\ spc = "bodies"
    /\ siga' = Hash(sa)
    /\ sigb' = Hash(sb)
    /\ spc' = "hashed"
    /\ UNCHANGED <<sa, sb, scoreAB, scoreBA, scoreAA>>
    /\ UNCHANGED <<mainVars, extractVars, normVars>>

\* _similar(A, B), _similar(B, A), _similar(A, A)
SimilarBoth ==
    /\ spc = "hashed"
    /\ scoreAB' = Similar(siga, sigb)
    /\ scoreBA' = Similar(sigb, siga)
    /\ scoreAA' = Similar(siga, siga)
    /\ spc' = "done"
    /\ UNCHANGED <<sa, sb, siga, sigb>>
    /\ UNCHANGED <<mainVars, extractVars, normVars>>

NextSim == HashBoth \/ SimilarBoth

SpecSim == InitSim /\ [][NextSim]_vars

(***************************************************************************)
(* Properties of main (specification Spec)                                 *)
(***************************************************************************)

Range(s) == { s[k] : k \in 1..Len(s) }

\* The two nested loops have just been left.
PassFinished == pc = "write"

\* The list filed under a head string, empty when there is none.
ClusterList(head) ==
    IF KeyIndex(clusters, head) = 0 THEN <<>>
    ELSE clusters[KeyIndex(clusters, head)].val

\* The keys of the entries after entry a (0-based) that score above 90
\* against it, in iteration order.
MembersAbove90(a) ==
    LET later == [k \in 1..(total - 1 - a) |-> a + k]
        hits == SelectSeq(later,
                   LAMBDA b : Similar(items[a + 1].val, items[b + 1].val) > 90)
    IN  [k \in 1..Len(hits) |-> items[hits[k] + 1].key]

\* Every pair a < b of 0..n-1.
PairsBelow(n) == { p \in (0..(n - 1)) \X (0..(n - 1)) : p[1] < p[2] }

\* p comes before q in the order of the two nested loops.
LoopBefore(p, q) == p[1] < q[1] \/ (p[1] = q[1] /\ p[2] < q[2])

\* C1: after the pairwise scan, the list filed under key_i holds exactly the
\* keys key_j with i before j and score(i, j) > 90, in iteration order of j
\* (a score of exactly 90 adds nothing); no other list exists; and every
\* pair i < j was compared, once, in loop order.
C1_PairwiseScan ==
    PassFinished =>
        /\ \A a \in 0..(total - 1) :
              ClusterList(HeadKey(items[a + 1].key[1], items[a + 1].key[2]))
                  = MembersAbove90(a)
        /\ \A k \in 1..Len(clusters) :
              /\ clusters[k].val # <<>>
              /\ \E a \in 0..(total - 1) :
                    clusters[k].key
                        = HeadKey(items[a + 1].key[1], items[a + 1].key[2])
        /\ Range(compared) = PairsBelow(total)
        /\ \A k, l \in 1..Len(compared) :
              k < l => LoopBefore(compared[k], compared[l])

\* C1's case: four entries, all six pairs compared, one pair scoring exactly
\* 90 and one list of two members.
C1_Witness ==
    /\ PassFinished
    /\ \E p \in PairsBelow(total) :
          Similar(items[p[1] + 1].val, items[p[2] + 1].val) = 90
    /\ \E k \in 1..Len(clusters) : Len(clusters[k].val) >= 2
    /\ Len(compared) = 6

\* C8: no cluster list, in the mapping or in the report written from it,
\* contains the key it is filed under.
C8_NoSelfMember ==
    \A cl \in {clusters, report.data} :
        \A k \in 1..Len(cl) :
            \A n \in 1..Len(cl[k].val) :
                HeadKey(cl[k].val[n][1], cl[k].val[n][2]) # cl[k].key

\* C8's case: a written report with a non-empty list.
C8_Witness ==
    /\ report.state = "complete"
    /\ \E k \in 1..Len(report.data) : Len(report.data[k].val) >= 1

\* Enumeration, extraction and the whole pairwise pass have finished.
PassComplete ==
    /\ fileIdx = Len(files) + 1
    /\ Range(reads) = { k \in 1..Len(files) : files[k].kind # "artefact" }
    /\ items = tokens
    /\ total = Len(tokens)
    /\ Range(compared) = PairsBelow(total)

\* C9 as amended: write_text is called at most once and only after
\* enumeration, extraction and the complete pairwise pass; a run that ends
\* for a missing root, a failure during scanning, a failed open of the
\* report or an interrupt before the write leaves no report; a write that
\* fails, or is interrupted, after the file was opened leaves a truncated
\* file; a complete report holds the cluster mapping.
C9_WriteOnceAtEnd ==
    /\ writes <= 1
    /\ writes = 1 => rootExists /\ PassComplete
    /\ writes = 0 => report.state = "absent"
    /\ fault \in {"read", "open"} => report.state = "absent"
    /\ ~ rootExists => report.state = "absent"
    /\ report.state = "truncated" =>
          pc = "opened" \/ fault \in {"write", "interrupt"}
    /\ report.state = "complete" => report.data = clusters

\* C9's case: the write failed after the whole pass, with pairs compared.
C9_Witness ==
    /\ pc = "crashed"
    /\ fault = "write"
    /\ writes = 1
    /\ report.state = "truncated"
    /\ Len(compared) >= 3

\* C9 as stated: at most one write, only after the complete pass, and in
\* any run that ends in a fatal error or is interrupted no report and no
\* partial report is written.
C9_NoReportOnFatal ==
    /\ writes <= 1
    /\ writes = 1 => PassComplete
    /\ pc \in {"exit", "crashed", "interrupted"} => report.state = "absent"

\* C10 as amended: a file whose bytes cannot be decoded as UTF-8 is skipped:
\* it contributes no entry, the files after it are still read, and a run
\* with no other failure compares every pair and writes the report.  Any
\* other failure of read_text ends the run at that file, with no report.
C10_DecodeErrorSkipped ==
    /\ \A k \in 1..Len(files) :
          (k \in Range(reads) /\ files[k].kind = "undecodable") =>
              /\ fileIdx > k
              /\ \A n \in 1..Len(tokens) : tokens[n].key[1] # PathOf(k)
    /\ fault = "read" =>
          /\ pc = "crashed"
          /\ files[fileIdx].kind = "unreadable"
          /\ reads[Len(reads)] = fileIdx
          /\ report.state = "absent"
    /\ pc = "done" =>
          /\ PassComplete
          /\ report.state = "complete"
          /\ \A k \in 1..Len(files) :
                files[k].kind = "text" =>
                    LET fns == ExtractFunctions(files[k].text)
                    IN  \A n \in 1..Len(fns) :
                            KeyIndex(tokens, <<PathOf(k), fns[n].name>>) # 0

\* C10's case: a finished run in which an undecodable file came before a
\* file that gave entries.
C10_Witness ==
    /\ pc = "done"
    /\ report.state = "complete"
    /\ \E k, l \in 1..Len(files) :
          /\ k < l
          /\ files[k].kind = "undecodable"
          /\ files[l].kind = "text"
          /\ \E n \in 1..Len(tokens) : tokens[n].key[1] = PathOf(l)

\* C10 as stated: whenever read_text has failed on a file, for a decode
\* error or for any other reason, the failure is not propagated and the
\* loop has moved past the file.
C10_AnyReadFailureSkipped ==
    \A k \in 1..Len(files) :
        (k \in Range(reads) /\ files[k].kind \in {"undecodable", "unreadable"}) =>
            fault # "read" /\ fileIdx > k

(***************************************************************************)
(* What the documentation says the two patterns do: whitespace runs, and    *)
(* "every `pub fn` or `fn` declaration".  Used to state properties only.   *)
(***************************************************************************)

\* End of the maximal run of whitespace that starts at p.
WsEnd(s, p) ==
    CHOOSE e \in p..(IF Len(s) > p THEN Len(s) ELSE p) :
        /\ \A k \in p..(e - 1) : IsSpace(CharAt(s, k))
        /\ ~ IsSpace(CharAt(s, e))

\* Every maximal run of whitespace replaced by one space, then trimmed.
RECURSIVE CollapseFrom(_, _)
CollapseFrom(s, p) ==
    IF p >= Len(s) THEN <<>>
    ELSE IF IsSpace(CharAt(s, p))
         THEN <<" ">> \o CollapseFrom(s, WsEnd(s, p))
         ELSE <<CharAt(s, p)>> \o CollapseFrom(s, p + 1)

CollapseWs(s) == Strip(CollapseFrom(s, 0))

\* The identifier characters of the model's alphabet.
IsWord(c) == c \in {"a", "b", "f", "n", "p", "s", "u", "w", "x"}

WordEnd(s, p) ==
    CHOOSE e \in p..(IF Len(s) > p THEN Len(s) ELSE p) :
        /\ \A k \in p..(e - 1) : IsWord(CharAt(s, k))
        /\ ~ IsWord(CharAt(s, e))

\* End of a return/type annotation that starts at p: the run of characters
\* that are neither braces nor parentheses.
AnnotEnd(s, p) ==
    CHOOSE e \in p..(IF Len(s) > p THEN Len(s) ELSE p) :
        /\ \A k \in p..(e - 1) : CharAt(s, k) \notin {"{", "}", "(", ")", ""}
        /\ CharAt(s, e) \in {"{", "}", "(", ")", ""}

\* fn, whitespace, an identifier, a parameter list without ")", an optional
\* annotation and an opening brace, from q: the identifier, or <<>>.
ClaimedFnName(s, q) ==
    IF ~ (LitAt(s, q, <<"f", "n">>) /\ WsEnd(s, q + 2) > q + 2) THEN <<>>
    ELSE
    LET n0 == WsEnd(s, q + 2)
        n1 == WordEnd(s, n0)
        closers == { k \in (WsEnd(s, n1) + 1)..(Len(s) - 1) : CharAt(s, k) = ")" }
    IN  IF n1 > n0 /\ CharAt(s, WsEnd(s, n1)) = "(" /\ closers # {}
           /\ CharAt(s, AnnotEnd(s, MinOf(closers) + 1)) = "{"
        THEN Slice(s, n0, n1)
        ELSE <<>>

\* The same with the optional visibility qualifier, pub and whitespace, in
\* front.
ClaimedName(s, p) ==
    IF LitAt(s, p, <<"p", "u", "b">>) /\ WsEnd(s, p + 3) > p + 3
    THEN ClaimedFnName(s, WsEnd(s, p + 3))
    ELSE ClaimedFnName(s, p)

ClaimedSites(s) == { p \in 0..(Len(s) - 1) : ClaimedName(s, p) # <<>> }

\* 1 + (opening braces) - (closing braces) of source[a:b]: the depth a
\* counter started at 1 has after reading it.
DepthAfter(s, a, b) ==
    1 + Cardinality({ t \in a..(b - 1) : CharAt(s, t) = "{" })
      - Cardinality({ t \in a..(b - 1) : CharAt(s, t) = "}" })

\* The positions after which the braces opened at a are closed.
Closers(s, a) == { e \in (a + 1)..Len(s) : DepthAfter(s, a, e) = 0 }

(***************************************************************************)
(* Properties of main, continued                                           *)
(***************************************************************************)

\* C2: two files, each holding one function, the two texts identical apart
\* from whitespace: both functions are extracted and the report has exactly
\* one cluster, one function as its head and the other as its only member.
C2_WhitespaceTwinsCluster ==
    ( /\ pc = "done"
      /\ Len(files) = 2
      /\ \A k \in 1..2 :
            /\ files[k].kind = "text"
            /\ Cardinality(ClaimedSites(files[k].text)) = 1
      /\ CollapseWs(files[1].text) = CollapseWs(files[2].text) )
    =>
    ( /\ Len(tokens) = 2
      /\ Len(report.data) = 1
      /\ report.data[1].key = HeadKey(PathOf(1), ClaimedName(files[1].text, 0))
      /\ report.data[1].val = << <<PathOf(2), ClaimedName(files[2].text, 0)>> >> )

\* The root main is asked to scan exists.
AskedRootExists == (IF argv = <<>> THEN SrcDir ELSE argv[1]) \in existing

\* C11: once the root (the first argument, or src without one) has been
\* looked up and does not exist, the error line is on stderr, the exit status
\* is 1, no file was enumerated or read and no report written; with an
\* existing root a run that has ended with no failed read or write (and no
\* interrupt) has exit status 0, the complete report and its group count
\* printed; status 0 is never reached without the report; and with no file
\* yielded the mapping is empty and the count is 0.
C11_RootCheckAndExit ==
    /\ (~ AskedRootExists /\ pc # "start" /\ fault # "interrupt") =>
          /\ pc = "exit"
          /\ stderr
          /\ exitCode = 1
          /\ fileIdx = 1 /\ reads = <<>> /\ tokens = <<>>
          /\ writes = 0 /\ report.state = "absent"
          /\ stdout = -1
    /\ (AskedRootExists /\ ~ Running /\ fault = "none") =>
          /\ pc = "done"
          /\ exitCode = 0
          /\ ~ stderr
          /\ report = [state |-> "complete", data |-> clusters]
          /\ stdout = Len(clusters)
    /\ exitCode = 0 =>
          /\ AskedRootExists
          /\ report.state = "complete"
          /\ fault = "none"
    /\ (pc = "done" /\ \A k \in 1..Len(files) : files[k].kind = "artefact") =>
          /\ clusters = <<>>
          /\ report.data = <<>>
          /\ stdout = 0
          /\ exitCode = 0

\* C11's case: the named root is missing while src exists, and main has
\* exited on it.
C11_Witness ==
    /\ pc = "exit"
    /\ argv = <<LibDir>>
    /\ existing = {SrcDir}
    /\ exitCode = 1
    /\ stderr

\* Every function extracted from the first n files, in the order of the
\* scan, as (key, fingerprint) pairs: one per occurrence.
RECURSIVE Extracted(_)
Extracted(n) ==
    IF n = 0 THEN <<>>
    ELSE Extracted(n - 1) \o
         (IF files[n].kind = "text"
          THEN LET fns == ExtractFunctions(files[n].text)
               IN  [k \in 1..Len(fns) |->
                      [key |-> <<PathOf(n), fns[k].name>>,
                       val |-> Hash(fns[k].body)]]
          ELSE <<>>)

\* The occurrences of the key of occurrence e.
SameKey(ex, e) == { f \in 1..Len(ex) : ex[f].key = ex[e].key }

\* The occurrences that are the first of their key, in order.
FirstOccs(ex) ==
    SelectSeq([e \in 1..Len(ex) |-> e],
              LAMBDA e : \A f \in 1..(e - 1) : ex[f].key # ex[e].key)

\* One entry per key, placed where the key first occurred and holding the
\* fingerprint of its last occurrence.
FirstPlaceLastValue(ex) ==
    LET firsts == FirstOccs(ex)
    IN  [a \in 1..Len(firsts) |->
            [key |-> ex[firsts[a]].key,
             val |-> ex[MaxOf(SameKey(ex, firsts[a]))].val]]

\* C13: the mapping never holds a (file, name) key twice; when the scan of
\* the files is over it holds one entry per key extracted, at the place of
\* the key's first occurrence and with the fingerprint of its last
\* occurrence; the pairwise scan runs over exactly these entries, pair after
\* pair in index order, so it makes at most one comparison per pair of keys
\* and none with an earlier body of a key, and after a whole pass the
\* clusters are the ones these entries give.
C13_LastValueFirstPlace ==
    /\ \A a, b \in 1..Len(tokens) : tokens[a].key = tokens[b].key => a = b
    /\ (pc = "outer" /\ i = 0) =>
          tokens = FirstPlaceLastValue(Extracted(Len(files)))
    /\ pc \in {"outer", "inner", "write", "done"} =>
          /\ items = tokens
          /\ total = Len(tokens)
          /\ \A c \in 1..Len(compared) :
                /\ compared[c][1] < compared[c][2]
                /\ compared[c][2] < total
                /\ c > 1 =>
                      \/ compared[c - 1][1] < compared[c][1]
                      \/ /\ compared[c - 1][1] = compared[c][1]
                         /\ compared[c - 1][2] < compared[c][2]
    /\ pc = "done" =>
          /\ tokens = FirstPlaceLastValue(Extracted(Len(files)))
          /\ \A a, b \in 1..Len(tokens) :
                a < b =>
                   ((\E c \in 1..Len(clusters) :
                        /\ clusters[c].key =
                              HeadKey(tokens[a].key[1], tokens[a].key[2])
                        /\ tokens[b].key \in Range(clusters[c].val))
                     <=> Similar(tokens[a].val, tokens[b].val) > Threshold)

\* C13's case: a whole pass over files in which some (file, name) key was
\* extracted twice with different bodies and another key in between, and
\* another entry resembles the earlier body (above 90) but not the later
\* one, and is in no cluster with that key.
C13_Witness ==
    /\ pc = "done"
    /\ LET ex == Extracted(Len(files))
       IN  \E e \in Range(FirstOccs(ex)) :
              LET last == MaxOf(SameKey(ex, e))
              IN  /\ last > e + 1
                  /\ ex[last].val # ex[e].val
                  /\ \E b \in 1..Len(tokens) :
                        /\ tokens[b].key # ex[e].key
                        /\ Similar(tokens[b].val, ex[e].val) > Threshold
                        /\ Similar(tokens[b].val, ex[last].val) <= Threshold
                        /\ \A c \in 1..Len(clusters) :
                              clusters[c].key =
                                 HeadKey(tokens[b].key[1], tokens[b].key[2])
                                 => ex[e].key \notin Range(clusters[c].val)

(***************************************************************************)
(* Properties of extract_functions (specification SpecExtract)             *)
(***************************************************************************)

\* C3: for every occurrence in the text of [pub] fn <identifier>(<no ")">)
\* [annotation] {, extract_functions returns a pair whose name is exactly
\* the identifier.
C3_EveryDeclarationReturned ==
    epc = "return" =>
        \A p \in ClaimedSites(source) :
            \E k \in 1..Len(functions) :
                functions[k].name = ClaimedName(source, p)

\* C4: while a body is scanned the depth is 1 plus the braces opened minus
\* the braces closed since the opening brace, and it was above zero before
\* every character read; and for a matched declaration whose braces close,
\* the captured body runs from the first character of the match through the
\* first closing brace at which that count is zero, where the scan stops
\* with depth 0.
C4_BalancedBody ==
    /\ epc = "while" =>
          /\ depth = DepthAfter(source, m.end, xi)
          /\ \A t \in m.end..(xi - 1) : DepthAfter(source, m.end, t) > 0
    /\ (epc \in {"for", "return"} /\ functions # <<>> /\ Closers(source, m.end) # {}) =>
          /\ xi = MinOf(Closers(source, m.end))
          /\ depth = 0
          /\ body = Slice(source, m.start, MinOf(Closers(source, m.end)))
          /\ body[1] = CharAt(source, m.start)
          /\ body[Len(body)] = "}"
          /\ functions[Len(functions)].name = m.name

\* C4's case: a captured body with a nested pair of braces inside it.
C4_Witness ==
    /\ epc = "for"
    /\ functions # <<>>
    /\ depth = 0
    /\ \E t \in m.end..(xi - 2) : CharAt(source, t) = "{"

\* What is left of extract_functions' run, as a natural number: the text
\* the search for matches has not passed, each position worth more than a
\* whole scan, plus the characters the scan under way has not read.
MeasureOf(s, at, pos, idx) ==
    IF at = "return"
    THEN 0
    ELSE (StrLen(s) - pos + 1) * (StrLen(s) + 3)
           + (IF at = "while" THEN StrLen(s) - idx + 2 ELSE 0)

ExtractMeasure == MeasureOf(source, epc, searchPos, xi)

\* Where the body of the match mt ends: after the first brace that closes
\* the declaration's, or at the end of the text when none does.
BodyEnd(s, mt) ==
    IF Closers(s, mt.end) = {} THEN StrLen(s) ELSE MinOf(Closers(s, mt.end))

\* The state part of C12.
C12_ScanInv ==
    /\ 0 <= xi /\ xi <= StrLen(source)
    /\ depth >= 0
    /\ ExtractMeasure >= 0
    /\ (epc \in {"for", "return"} /\ functions # <<>> /\ depth # 0) =>
          /\ xi = StrLen(source)
          /\ body = Slice(source, m.start, StrLen(source))
          /\ functions[Len(functions)] =
                [name |-> m.name, body |-> Normalize(body)]
    /\ (epc = "for" /\ functions # <<>>) =>
          functions[Len(functions)] =
             [name |-> m.name,
              body |-> Normalize(Slice(source, m.start, BodyEnd(source, m)))]
    /\ epc = "return" =>
          LET ms == FindIter(source)
          IN  /\ Len(functions) = Len(ms)
              /\ \A k \in 1..Len(functions) :
                    /\ functions[k].name = ms[k].name
                    /\ functions[k].body =
                          Normalize(Slice(source, ms[k].start,
                                          BodyEnd(source, ms[k])))
                    /\ k > 1 => ms[k - 1].start < ms[k].start

\* The step part of C12.
C12_ScanStep ==
    /\ MeasureOf(source', epc', searchPos', xi') < ExtractMeasure
    /\ epc = "while" => xi' \in {xi, xi + 1}
    /\ (epc = "while" /\ epc' = "while") => xi' = xi + 1
    /\ epc = "for" => functions' = functions
    /\ epc = "while" => Len(functions') \in {Len(functions), Len(functions) + 1}

\* C12: extract_functions ends on every text, raising nothing: every step
\* lowers a natural-number measure of the work left; within the scan of one
\* body the index goes up by one per character and never passes the length
\* of the text; the depth is never below 0; a declaration whose braces have
\* not closed at the end of the text gets the text from its start to the end
\* as its body; and the list returned has one entry per match of the
\* pattern, in the order of the matches' starts, the unbalanced ones
\* included.
C12_TerminatesOnAnyText == [] C12_ScanInv /\ [][C12_ScanStep]_vars

\* C12's case: two functions returned, the first one's braces never closed
\* (one of them opened inside a string literal), so its body ran to the end
\* of the text, and the second one returned all the same.
C12_Witness ==
    /\ epc = "return"
    /\ Len(functions) = 2
    /\ Closers(source, FindIter(source)[1].end) = {}
    /\ \E t \in 1..(Len(source) - 2) :
          source[t] = "\"" /\ source[t + 1] = "{" /\ source[t + 2] = "\""

(***************************************************************************)
(* Properties of the normalisation step (specification SpecNorm)           *)
(***************************************************************************)

\* C5: the normalised body is the body with every maximal run of whitespace
\* replaced by one space and the ends trimmed, so any body that differs from
\* it only in whitespace runs normalises to the same string.
C5_WhitespaceCollapsed ==
    npc \in {"clean", "done"} =>
        /\ nout = CollapseWs(nbody)
        /\ \A b2 \in NormBodies :
              CollapseWs(b2) = CollapseWs(nbody) => Normalize(b2) = nout

\* C6: applying the normalisation step to its own output returns that
\* output unchanged.
C6_Idempotent == npc = "done" => nout2 = nout

\* C6's case: a body the step changed, by substitution and by strip, into a
\* non-empty string, normalised a second time.
C6_Witness ==
    /\ npc = "done"
    /\ nout # <<>>
    /\ \E k \in 1..(Len(nbody) - 1) : nbody[k] = BS /\ nbody[k + 1] = "s"
    /\ IsSpace(nbody[1])

(***************************************************************************)
(* Properties of _hash and _similar (specification SpecSim)                *)
(***************************************************************************)

\* C7: _similar(A, B) = _similar(B, A), _similar(A, A) = 100, and every
\* result is an integer of 0..100.
C7_SymmetricBounded ==
    spc = "done" =>
        /\ scoreAB = scoreBA
        /\ scoreAA = 100
        /\ scoreAB \in 0..100
        /\ scoreBA \in 0..100

=============================================================================
